---- MODULE Spec2Model ----
(***************************************************************************)
(* A model of backend/app.py: the Flask service that turns a prompt into   *)
(* a Manim render, a quiz and a summary.  Text is a sequence of one-       *)
(* character strings, so that slicing, lower-casing and splitting are      *)
(* computed as Python computes them.  The long literals of the source (the *)
(* seeded captions, the two halves of a generated caption, the URLs) are   *)
(* kept as one element each: a search query matches them only as a whole.  *)
(***************************************************************************)
EXTENDS Integers, Sequences, FiniteSets, TLC

VARIABLES videos, quizzes, dir, now, proc, req, nextReq, reply, derive

vars == <<videos, quizzes, dir, now, proc, req, nextReq, reply, derive>>

serverVars == <<videos, quizzes, dir, now, proc, req, nextReq, reply>>

(* ------------------------------ bounds -------------------------------- *)

\* Requests that block on a model call or on the render subprocess.
MaxReq == 2

\* The latest modification time the file system clock reaches.
MaxClock == 2

\* Files one render subprocess writes.
MaxWrites == 1

\* Pieces (words and separators) a prompt of the text specification has.
MaxPieces == 4

(* ------------------------------- text --------------------------------- *)

None == <<>>

Whitespace == {" ", "\t"}

LowerMap ==
    ("A" :> "a") @@ ("B" :> "b") @@ ("C" :> "c") @@ ("D" :> "d") @@ ("E" :> "e") @@ ("F" :> "f") @@
    ("G" :> "g") @@ ("H" :> "h") @@ ("I" :> "i") @@ ("J" :> "j") @@ ("K" :> "k") @@ ("L" :> "l") @@
    ("M" :> "m") @@ ("N" :> "n") @@ ("O" :> "o") @@ ("P" :> "p") @@ ("Q" :> "q") @@ ("R" :> "r") @@
    ("S" :> "s") @@ ("T" :> "t") @@ ("U" :> "u") @@ ("V" :> "v") @@ ("W" :> "w") @@ ("X" :> "x") @@
    ("Y" :> "y") @@ ("Z" :> "z")

\* str.lower() on one character.
LowerChar(c) == IF c \in DOMAIN LowerMap THEN LowerMap[c] ELSE c

\* str.lower()
Lower(s) == [i \in 1..Len(s) |-> LowerChar(s[i])]

\* s[:n]
Prefix(s, n) == SubSeq(s, 1, IF Len(s) < n THEN Len(s) ELSE n)

\* str.startswith / str.endswith
StartsWith(s, p) == Len(s) >= Len(p) /\ SubSeq(s, 1, Len(p)) = p

EndsWith(s, p) == Len(s) >= Len(p) /\ SubSeq(s, Len(s) - Len(p) + 1, Len(s)) = p

\* needle in hay
Contains(hay, needle) ==
    \E i \in 0..(Len(hay) - Len(needle)) : SubSeq(hay, i + 1, i + Len(needle)) = needle

\* str.replace(" ", "+")
ReplaceSpace(s) == [i \in 1..Len(s) |-> IF s[i] = " " THEN "+" ELSE s[i]]

\* str.split(): the maximal runs of non-whitespace characters, in order.
RECURSIVE SplitFrom(_, _, _)
SplitFrom(s, i, cur) ==
    IF i > Len(s)
    THEN IF cur = <<>> THEN <<>> ELSE <<cur>>
    ELSE IF s[i] \in Whitespace
         THEN (IF cur = <<>> THEN <<>> ELSE <<cur>>) \o SplitFrom(s, i + 1, <<>>)
         ELSE SplitFrom(s, i + 1, Append(cur, s[i]))

Split(s) == SplitFrom(s, 1, <<>>)

RECURSIVE Flatten(_)
Flatten(ss) == IF ss = <<>> THEN <<>> ELSE Head(ss) \o Flatten(Tail(ss))

(* --------------------------- generate_video: derived fields ----------- *)

TitleMax == 30

Ellipsis == <<".", ".", ".">>

MinTagLen == 3

\* title = prompt[:30] + '...' if len(prompt) > 30 else prompt
Title(prompt) ==
    IF Len(prompt) > TitleMax THEN Prefix(prompt, TitleMax) \o Ellipsis ELSE prompt

AtLeastMin(tag) == Len(tag) >= MinTagLen

\* len(tag) > 3
LongerThanMin(tag) == Len(tag) > MinTagLen

\* [tag for tag in prompt.lower().split() if len(tag) > 3]
TopicTags(prompt) == SelectSeq(Split(Lower(prompt)), LongerThanMin)

ThumbnailBase == "https://placehold.co/600x400/1a202c/ffffff?text="

Thumbnail(title) == <<ThumbnailBase>> \o ReplaceSpace(title)

CaptionHead == "This is a generated video about "

CaptionTail ==
    ". The video explains the key concepts and provides detailed information on the topic."

Caption(prompt) == <<CaptionHead>> \o prompt \o <<CaptionTail>>

(* ------------------------------ storage ------------------------------- *)

VIDEO_FOLDER == "media/videos"

SpaceTitle == <<"T", "h", "e", " ", "H", "i", "s", "t", "o", "r", "y", " ", "o", "f", " ", "S", "p", "a", "c", "e", " ", "E", "x", "p", "l", "o", "r", "a", "t", "i", "o", "n">>

NeuralTitle == <<"D", "e", "e", "p", " ", "D", "i", "v", "e", " ", "i", "n", "t", "o", " ", "N", "e", "u", "r", "a", "l", " ", "N", "e", "t", "w", "o", "r", "k", "s">>

SpaceCaption ==
    "The history of space exploration spans centuries, beginning with early astronomical observations and culminating in crewed missions to the Moon and robotic exploration of the solar system."

NeuralCaption ==
    "Neural networks are computing systems inspired by the human brain. They consist of interconnected nodes that process information and can learn to perform tasks by considering examples."

\* The two records the videos list holds when the module is loaded.
SeedVideos ==
    << [video_id |-> <<"vid001">>, user_id |-> "user123", title |-> SpaceTitle,
        thumbnail_url |-> <<"https://placehold.co/600x400/1a202c/ffffff?text=Space+History">>,
        video_file_url |-> <<VIDEO_FOLDER, "/", "space_history.mp4">>,
        caption_content |-> <<SpaceCaption>>,
        topic_tags |-> << <<"s", "p", "a", "c", "e">>, <<"e", "x", "p", "l", "o", "r", "a", "t", "i", "o", "n">>, <<"h", "i", "s", "t", "o", "r", "y">> >>,
        created_at |-> 0],
       [video_id |-> <<"vid002">>, user_id |-> "user123", title |-> NeuralTitle,
        thumbnail_url |-> <<"https://placehold.co/600x400/1a202c/ffffff?text=AI+Deep+Dive">>,
        video_file_url |-> <<VIDEO_FOLDER, "/", "neural_networks.mp4">>,
        caption_content |-> <<NeuralCaption>>,
        topic_tags |-> << <<"a", "i">>, <<"n", "e", "u", "r", "a", "l", " ", "n", "e", "t", "w", "o", "r", "k", "s">>, <<"m", "a", "c", "h", "i", "n", "e", " ", "l", "e", "a", "r", "n", "i", "n", "g">> >>,
        created_at |-> 0] >>

\* uuid4().hex[:8] is taken to be fresh: the request's number stands for it.
generate_video_id(r) == <<"vid_", r>>

generate_quiz_id(r) == <<"quiz_", r>>

\* next((v for v in videos if v['video_id'] == video_id), None)
HasVideo(vs, video_id) == \E i \in 1..Len(vs) : vs[i].video_id = video_id

FindVideo(vs, video_id) ==
    vs[CHOOSE i \in 1..Len(vs) :
          /\ vs[i].video_id = video_id
          /\ \A j \in 1..(i - 1) : vs[j].video_id # video_id]

(* ------------------------- generate_manim_animation ------------------- *)

\* The three-backquote fence, with and without the language tag.
FencePython == "<fence>python"

Fence == "<fence>"

Blank == {" ", "\n"}

\* str.strip()
RECURSIVE Strip(_)
Strip(s) ==
    IF s = <<>> THEN s
    ELSE IF Head(s) \in Blank THEN Strip(Tail(s))
    ELSE IF s[Len(s)] \in Blank THEN Strip(SubSeq(s, 1, Len(s) - 1))
    ELSE s

\* A closing fence is any later fence, the first three characters of an
\* opening fence included.
IsFence(tok) == tok \in {Fence, FencePython}

\* re.search(fence + "python(.*?)" + fence, code, re.DOTALL): the leftmost opening
\* fence that some later fence closes, and the nearest fence closing it.
HasCodeBlock(text) ==
    \E i \in 1..Len(text) :
        text[i] = FencePython /\ \E j \in (i + 1)..Len(text) : IsFence(text[j])

\* extracted_code.group(1).strip()
ExtractCode(text) ==
    LET i == CHOOSE a \in 1..Len(text) :
                 /\ text[a] = FencePython
                 /\ \E j \in (a + 1)..Len(text) : IsFence(text[j])
                 /\ \A b \in 1..(a - 1) :
                        ~(text[b] = FencePython /\ \E j \in (b + 1)..Len(text) : IsFence(text[j]))
        j == CHOOSE c \in (i + 1)..Len(text) :
                 IsFence(text[c]) /\ \A d \in (i + 1)..(c - 1) : ~IsFence(text[d])
    IN  Strip(SubSeq(text, i + 1, j - 1))

\* What gemini_client.chat.completions.create can do for the code prompt:
\* raise (ok = FALSE, which also stands for the system prompt file that cannot
\* be read and the content that is None), or return text with no block, an
\* unclosed block, or two blocks.
CodeReplies ==
    { [ok |-> FALSE, text |-> <<>>],
      [ok |-> TRUE, text |-> <<"Here is no code.">>],
      [ok |-> TRUE, text |-> <<FencePython, "\n", "class MainScene(Scene): ...">>],
      [ok |-> TRUE, text |-> <<"Sure:", FencePython, "\n", "class MainScene(Scene): ...", "\n",
                               Fence, "or", FencePython, "class Other(Scene): ...", Fence>>] }

EntryPoint == <<"M", "a", "i", "n", "S", "c", "e", "n", "e">>

VideoExt == <<".", "m", "p", "4">>

\* Names the render tool may give the files it writes into VIDEO_FOLDER.
FileNames ==
    { EntryPoint \o VideoExt,
      EntryPoint \o <<"_", "v", "2">> \o VideoExt,
      EntryPoint \o <<".", "p", "n", "g">>,
      <<"p", "a", "r", "t", "i", "a", "l">> \o VideoExt }

\* [f for f in os.listdir(VIDEO_FOLDER) if f.startswith('MainScene') and f.endswith('.mp4')]
MatchingFiles(listing) ==
    {f \in listing : StartsWith(f.name, EntryPoint) /\ EndsWith(f.name, VideoExt)}

\* The files sort(key=getmtime, reverse=True) can put first: a
\* file of the latest modification time (the sort is stable, and listdir's order
\* is arbitrary, so a tie is broken either way).
AnyFile(files) == files

Newest(files) == {f \in files : \A g \in files : g.mtime <= f.mtime}

\* os.path.join(app.config['VIDEO_FOLDER'], video_filename)
JoinPath(name) == <<VIDEO_FOLDER, "/">> \o name

\* A child that subprocess.run has waited for: it has exited and is reaped.
Reaped == [state |-> "reaped", rc |-> 0, writes |-> 0]

LeftRunning(p) == p

\* subprocess.run(..., timeout=120) kills the child and waits for it before it
\* raises TimeoutExpired.
KilledOnTimeout(p) == Reaped

(* --------------------------- generate_video --------------------------- *)

Fallback == <<"mock_video.mp4">>

NoFallback(video_file_path) == video_file_path

\* video_file_url = 'mock_video.mp4' if not video_file_path else video_file_path
VideoFileUrl(video_file_path) ==
    IF video_file_path = None THEN Fallback ELSE video_file_path

NewVideo(q, video_file_path, created) ==
    [video_id |-> q.video_id,
     user_id |-> q.user_id,
     title |-> Title(q.prompt),
     thumbnail_url |-> Thumbnail(Title(q.prompt)),
     video_file_url |-> VideoFileUrl(video_file_path),
     caption_content |-> Caption(q.prompt),
     topic_tags |-> TopicTags(q.prompt),
     created_at |-> created]

Prepended(vs, v) == <<v>> \o vs

\* videos.append(new_video)
StoreVideo(vs, v) == Append(vs, v)

(* ---------------------- generate_quiz_with_gemini --------------------- *)

\* Python's None where an answer string is expected (a JSON null, or what
\* dict.get returns for a key that is not there).
NullAnswer == "<None>"

Options == <<"A", "B", "C", "D">>

GoodQuestion(i) ==
    [id |-> i, text |-> "What does the video explain?", options |-> Options,
     answer |-> Options[i]]

\* Fewer than four options, two of them equal, and an answer that is none of them.
BadQuestion(i) ==
    [id |-> i, text |-> "What does the video explain?", options |-> <<"A", "A", "B">>,
     answer |-> "E"]

\* What the model can send back for the quiz prompt: the call raises (ok),
\* the text is not JSON (json), the JSON is not an object (object), or it is an
\* object, with or without a 'questions' key (keys).
QuizReplies ==
    { [ok |-> FALSE, json |-> FALSE, object |-> FALSE, keys |-> {}, questions |-> <<>>],
      [ok |-> TRUE, json |-> FALSE, object |-> FALSE, keys |-> {}, questions |-> <<>>],
      [ok |-> TRUE, json |-> TRUE, object |-> FALSE, keys |-> {}, questions |-> <<>>],
      [ok |-> TRUE, json |-> TRUE, object |-> TRUE, keys |-> {}, questions |-> <<>>],
      [ok |-> TRUE, json |-> TRUE, object |-> TRUE, keys |-> {"questions"},
       questions |-> <<GoodQuestion(1), GoodQuestion(2), GoodQuestion(3)>>],
      [ok |-> TRUE, json |-> TRUE, object |-> TRUE, keys |-> {"questions"},
       questions |-> <<GoodQuestion(1), GoodQuestion(2), GoodQuestion(3), GoodQuestion(4)>>],
      [ok |-> TRUE, json |-> TRUE, object |-> TRUE, keys |-> {"questions"},
       questions |-> <<GoodQuestion(1), GoodQuestion(2), GoodQuestion(3), BadQuestion(4)>>] }

\* The except branch: {'quiz_id': ..., 'video_id': video_id, 'questions': []}
FallbackQuiz(video_id, quiz_id) ==
    [quiz_id |-> quiz_id, video_id |-> video_id, keys |-> {"quiz_id", "video_id", "questions"},
     questions |-> <<>>]

\* json.loads raises on text that is not JSON, and quiz_data['quiz_id'] = ...
\* raises on a JSON value that is not an object; whatever object is parsed is
\* returned with the two ids set.
generate_quiz_with_gemini(reply_, video_id, quiz_id) ==
    IF reply_.ok /\ reply_.json /\ reply_.object
    THEN [quiz_id |-> quiz_id, video_id |-> video_id,
          keys |-> reply_.keys \cup {"quiz_id", "video_id"},
          questions |-> reply_.questions]
    ELSE FallbackQuiz(video_id, quiz_id)

(* ------------------------------ submit_quiz --------------------------- *)

PassMark == 70

\* str(question['id']) for the ids the replies use.
Str(n) == <<"0", "1", "2", "3", "4", "5", "6", "7", "8", "9">>[n + 1]

\* answers.get(key)
Get(answers, key) == IF key \in DOMAIN answers THEN answers[key] ELSE NullAnswer

RECURSIVE CountCorrect(_, _)
CountCorrect(questions, answers) ==
    IF questions = <<>> THEN 0
    ELSE (IF Get(answers, Str(Head(questions).id)) = Head(questions).answer THEN 1 ELSE 0)
         + CountCorrect(Tail(questions), answers)

\* The percentage is the fraction num / den: (correct / total) * 100, and 0
\* when there is no question.
Score(quiz, answers) ==
    LET correct_count == CountCorrect(quiz.questions, answers)
        total_questions == Len(quiz.questions)
        num == IF total_questions > 0 THEN correct_count * 100 ELSE 0
        den == IF total_questions > 0 THEN total_questions ELSE 1
    IN  [correct |-> correct_count, total |-> total_questions,
         percentage |-> [num |-> num, den |-> den],
         passed |-> (num >= PassMark * den)]

\* The answers maps a client submits.
AnswerMaps ==
    { <<>>,
      [k \in {"1", "2", "3", "4"} |-> Options[CHOOSE i \in 1..4 : Str(i) = k]],
      ("1" :> "A") @@ ("2" :> "B") @@ ("3" :> "C") @@ ("4" :> "A"),
      ("1" :> "a") @@ ("2" :> "B") @@ ("9" :> "D") }

(* ------------------------------- state -------------------------------- *)

Reqs == 1..MaxReq

IdleReq ==
    [kind |-> "none", pc |-> "idle", prompt |-> <<>>, user_id |-> "", video_id |-> <<>>,
     python_code |-> <<>>, stage |-> "", returncode |-> 0, video_file_path |-> None,
     listing |-> {},
     resp |-> [status |-> 0]]

\* The route has returned resp: the locals of the call are gone.
Returned(q, resp) ==
    [IdleReq EXCEPT !.kind = q.kind, !.pc = "done", !.video_id = q.video_id, !.resp = resp]

\* No response is being sent.
NoReply == [op |-> "none", status |-> 0]

NoProc == [state |-> "none", rc |-> 0, writes |-> 0]

NoDerive == [prompt |-> <<>>, has_title |-> FALSE, title |-> <<>>, has_tags |-> FALSE, tags |-> <<>>]

Init ==
    /\ videos = SeedVideos
    /\ quizzes = <<>>
    /\ dir = {}
    /\ now = 1
    /\ proc = [r \in Reqs |-> NoProc]
    /\ req = [r \in Reqs |-> IdleReq]
    /\ nextReq = 1
    /\ reply = NoReply
    /\ derive = NoDerive

(* ------------------------------- inputs ------------------------------- *)

\* The prompt of the end-to-end scenario.
ScenarioPrompt ==
    <<"e", "x", "p", "l", "a", "i", "n", " ", "h", "o", "w", " ">> \o
    <<"b", "l", "a", "c", "k", " ", "h", "o", "l", "e", "s", " ", "f", "o", "r", "m">>

Prompts == {<<>>, ScenarioPrompt}

UserIds == {"", "u1"}

UnknownId == <<"nope">>

VideoIds == {videos[i].video_id : i \in 1..Len(videos)} \cup {UnknownId}

QuizIds == {quizzes[v].quiz_id : v \in DOMAIN quizzes} \cup {UnknownId}

Queries == {<<>>, <<"S", "P", "A", "C", "E">>, <<"f", "o", "r", "m">>}

\* What the model can do for the summary prompt: raise, return no content,
\* return bullet points.
SummaryReplies ==
    { [ok |-> FALSE, content |-> ""], [ok |-> TRUE, content |-> ""],
      [ok |-> TRUE, content |-> "- point one - point two - point three"] }

(* ----------------------------- scheduling ---------------------------- *)

\* No request is in flight and no response is waiting to go out.  The routes
\* that answer in one step are taken up in such a state only (they change
\* nothing a request in flight reads), and a request is taken up once the
\* response being sent has gone out.
Quiet == reply = NoReply /\ \A r \in Reqs : req[r].pc \in {"idle", "done"}

(* ------------------------ POST /api/videos/generate ------------------- *)

\* if not prompt or not user_id: 400
GenerateRejected(prompt, user_id) ==
    /\ Quiet
    /\ prompt = <<>> \/ user_id = ""
    /\ reply' = [op |-> "generate", status |-> 400, body |-> "Prompt and user_id are required"]
    /\ UNCHANGED <<videos, quizzes, dir, now, proc, req, nextReq, derive>>

\* The request is accepted and generate_manim_animation calls the model.
GenerateStart(r, prompt, user_id) ==
    /\ reply = NoReply
    /\ r = nextReq
    /\ r <= MaxReq
    /\ prompt # <<>>
    /\ user_id # ""
    /\ req' = [req EXCEPT ![r] = [IdleReq EXCEPT !.kind = "generate", !.pc = "synth",
                                                 !.prompt = prompt, !.user_id = user_id,
                                                 !.video_id = generate_video_id(r)]]
    /\ nextReq' = r + 1
    /\ UNCHANGED <<videos, quizzes, dir, now, proc, reply, derive>>

\* generate_manim_animation has returned video_file_path: the record is built
\* and appended, and generate_quiz_with_gemini calls the model.
Assemble(r, video_file_path, stage, listing, python_code) ==
    /\ videos' = StoreVideo(videos, NewVideo(req[r], video_file_path, now))
    /\ req' = [req EXCEPT ![r].pc = "quiz", ![r].video_file_path = video_file_path,
                          ![r].stage = stage, ![r].listing = listing,
                          ![r].python_code = python_code,
                          ![r].returncode = proc[r].rc]

\* The model call for the code returns or raises; with a code block in hand
\* the file is written and subprocess.run starts manim, or finds no manim.
CodeReturn(r, rep, installed) ==
    /\ req[r].kind = "generate"
    /\ req[r].pc = "synth"
    /\ IF ~rep.ok
       THEN Assemble(r, None, "model_error", {}, <<>>) /\ UNCHANGED proc
       ELSE IF ~HasCodeBlock(rep.text)
       THEN Assemble(r, None, "no_code", {}, <<>>) /\ UNCHANGED proc
       ELSE IF ~installed
       THEN Assemble(r, None, "tool_missing", {}, ExtractCode(rep.text)) /\ UNCHANGED proc
       ELSE /\ req' = [req EXCEPT ![r].pc = "render", ![r].python_code = ExtractCode(rep.text)]
            /\ proc' = [proc EXCEPT ![r] = [state |-> "running", rc |-> 0, writes |-> 0]]
            /\ UNCHANGED videos
    /\ UNCHANGED <<quizzes, dir, now, nextReq, reply, derive>>

\* The render subprocess writes (or overwrites) a file in VIDEO_FOLDER.
ProcWrite(r, name, t) ==
    /\ proc[r].state = "running"
    /\ proc[r].writes < MaxWrites
    /\ t \in {now, now + 1}
    /\ t <= MaxClock
    /\ dir' = {f \in dir : f.name # name} \cup {[name |-> name, mtime |-> t, by |-> r]}
    /\ now' = t
    /\ proc' = [proc EXCEPT ![r].writes = @ + 1]
    /\ UNCHANGED <<videos, quizzes, req, nextReq, reply, derive>>

\* The render subprocess exits.
ProcExit(r, rc) ==
    /\ proc[r].state = "running"
    /\ proc' = [proc EXCEPT ![r].state = "exited", ![r].rc = rc]
    /\ UNCHANGED <<videos, quizzes, dir, now, req, nextReq, reply, derive>>

\* subprocess.run returns: the scan of VIDEO_FOLDER on a zero exit code, which
\* os.listdir or os.path.getmtime may end with an OSError (scans = FALSE).
RenderReturn(r, scans) ==
    /\ req[r].kind = "generate"
    /\ req[r].pc = "render"
    /\ proc[r].state = "exited"
    /\ IF proc[r].rc # 0
       THEN Assemble(r, None, "render_failed", {}, req[r].python_code)
       ELSE IF ~scans
       THEN Assemble(r, None, "scan_error", {}, req[r].python_code)
       ELSE LET video_files == MatchingFiles(dir)
            IN  IF video_files # {}
                THEN \E f \in Newest(video_files) :
                        Assemble(r, JoinPath(f.name), "rendered", dir, req[r].python_code)
                ELSE Assemble(r, None, "no_artifact", dir, req[r].python_code)
    /\ proc' = [proc EXCEPT ![r] = Reaped]
    /\ UNCHANGED <<quizzes, dir, now, nextReq, reply, derive>>

\* except subprocess.TimeoutExpired: the child had not exited in 120 s.
RenderTimeout(r) ==
    /\ req[r].kind = "generate"
    /\ req[r].pc = "render"
    /\ proc[r].state = "running"
    /\ proc' = [proc EXCEPT ![r] = KilledOnTimeout(proc[r])]
    /\ Assemble(r, None, "timeout", {}, req[r].python_code)
    /\ UNCHANGED <<quizzes, dir, now, nextReq, reply, derive>>

\* quizzes[video_id] = quiz; return {'video': new_video, 'quiz': quiz}, 200
QuizReturn(r, rep) ==
    /\ req[r].kind = "generate"
    /\ req[r].pc = "quiz"
    /\ LET quiz == generate_quiz_with_gemini(rep, req[r].video_id, generate_quiz_id(r))
       IN  /\ quizzes' = (req[r].video_id :> quiz) @@ quizzes
           /\ req' = [req EXCEPT ![r] = Returned(req[r],
                                                 [status |-> 200,
                                                  video |-> FindVideo(videos, req[r].video_id),
                                                  quiz |-> quiz])]
    /\ UNCHANGED <<videos, dir, now, proc, nextReq, reply, derive>>

(* --------------------- GET /api/videos/<video_id>/quiz ---------------- *)

\* if video_id in quizzes: return the stored quiz
GetQuizHit(video_id) ==
    /\ Quiet
    /\ video_id \in DOMAIN quizzes
    /\ reply' = [op |-> "get_quiz", status |-> 200, body |-> quizzes[video_id]]
    /\ UNCHANGED <<videos, quizzes, dir, now, proc, req, nextReq, derive>>

GetQuizNotFound(video_id) ==
    /\ Quiet
    /\ video_id \notin DOMAIN quizzes
    /\ ~HasVideo(videos, video_id)
    /\ reply' = [op |-> "get_quiz", status |-> 404, body |-> "Video not found"]
    /\ UNCHANGED <<videos, quizzes, dir, now, proc, req, nextReq, derive>>

\* No quiz is stored and the video exists: generate_quiz_with_gemini calls
\* the model.
GetQuizStart(r, video_id) ==
    /\ reply = NoReply
    /\ r = nextReq
    /\ r <= MaxReq
    /\ video_id \notin DOMAIN quizzes
    /\ HasVideo(videos, video_id)
    /\ req' = [req EXCEPT ![r] = [IdleReq EXCEPT !.kind = "get_quiz", !.pc = "quiz",
                                                 !.video_id = video_id]]
    /\ nextReq' = r + 1
    /\ UNCHANGED <<videos, quizzes, dir, now, proc, reply, derive>>

\* quizzes[video_id] = quiz; return quiz, 200
GetQuizReturn(r, rep) ==
    /\ req[r].kind = "get_quiz"
    /\ req[r].pc = "quiz"
    /\ LET quiz == generate_quiz_with_gemini(rep, req[r].video_id, generate_quiz_id(r))
       IN  /\ quizzes' = (req[r].video_id :> quiz) @@ quizzes
           /\ req' = [req EXCEPT ![r] = Returned(req[r], [status |-> 200, quiz |-> quiz])]
    /\ UNCHANGED <<videos, dir, now, proc, nextReq, reply, derive>>

(* ---------------------- POST /api/quiz/<quiz_id>/submit --------------- *)

\* quiz['questions'] raises KeyError when the stored quiz has no such key:
\* the request ends in a 500.
SubmitQuiz(quiz_id, answers) ==
    /\ Quiet
    /\ LET found == {v \in DOMAIN quizzes : quizzes[v].quiz_id = quiz_id}
       IN  IF found = {}
           THEN reply' = [op |-> "submit_quiz", status |-> 404, body |-> "Quiz not found"]
           ELSE \E v \in found :
                   IF "questions" \in quizzes[v].keys
                   THEN reply' = [op |-> "submit_quiz", status |-> 200, quiz_id |-> quiz_id,
                                  answers |-> answers, body |-> Score(quizzes[v], answers)]
                   ELSE reply' = [op |-> "submit_quiz", status |-> 500, quiz_id |-> quiz_id,
                                  answers |-> answers, body |-> "KeyError: 'questions'"]
    /\ UNCHANGED <<videos, quizzes, dir, now, proc, req, nextReq, derive>>

(* ------------------------------ read routes --------------------------- *)

\* [v for v in videos if v['user_id'] == user_id]
GetUserVideos(user_id) ==
    /\ Quiet
    /\ reply' = [op |-> "get_user_videos", status |-> 200,
                 body |-> SelectSeq(videos, LAMBDA v : v.user_id = user_id)]
    /\ UNCHANGED <<videos, quizzes, dir, now, proc, req, nextReq, derive>>

PopularVideos == <<"vid003", "vid004">>

\* query in title.lower() or in a tag or in caption_content.lower()
QueryMatches(v, query) ==
    \/ Contains(Lower(v.title), query)
    \/ \E i \in 1..Len(v.topic_tags) : Contains(v.topic_tags[i], query)
    \/ Contains(Lower(v.caption_content), query)

SearchVideos(q) ==
    /\ Quiet
    /\ LET query == Lower(q)
       IN  IF query = <<>>
           THEN reply' = [op |-> "search_videos", status |-> 200, body |-> PopularVideos]
           ELSE reply' = [op |-> "search_videos", status |-> 200,
                          body |-> SelectSeq(videos, LAMBDA v : QueryMatches(v, query))]
    /\ UNCHANGED <<videos, quizzes, dir, now, proc, req, nextReq, derive>>

GetVideoDetails(video_id) ==
    /\ Quiet
    /\ IF HasVideo(videos, video_id)
       THEN reply' = [op |-> "get_video_details", status |-> 200,
                      body |-> FindVideo(videos, video_id)]
       ELSE reply' = [op |-> "get_video_details", status |-> 404, body |-> "Video not found"]
    /\ UNCHANGED <<videos, quizzes, dir, now, proc, req, nextReq, derive>>

\* summarize_transcript_with_gemini: the content, or a fixed string when the
\* content is empty or the call raises.
Summarize(rep) ==
    IF ~rep.ok THEN "Sorry, there was an error generating the summary."
    ELSE IF rep.content = "" THEN "Could not generate summary."
    ELSE rep.content

GetVideoSummary(video_id, rep) ==
    /\ Quiet
    /\ IF HasVideo(videos, video_id)
       THEN reply' = [op |-> "get_video_summary", status |-> 200, body |-> Summarize(rep)]
       ELSE reply' = [op |-> "get_video_summary", status |-> 404, body |-> "Video not found"]
    /\ UNCHANGED <<videos, quizzes, dir, now, proc, req, nextReq, derive>>

(* --------------------------- the specification ------------------------ *)

\* The response has gone out to the client.
Send ==
    /\ reply # NoReply
    /\ reply' = NoReply
    /\ UNCHANGED <<videos, quizzes, dir, now, proc, req, nextReq, derive>>

\* The threaded server (app.run serves each request on a thread of its own):
\* the requests to the two routes that block on a model call or on the render
\* interleave at their blocking calls.
Next ==
    \/ \E r \in Reqs, p \in Prompts, u \in UserIds : GenerateStart(r, p, u)
    \/ \E r \in Reqs, rep \in CodeReplies, installed \in BOOLEAN : CodeReturn(r, rep, installed)
    \/ \E r \in Reqs, name \in FileNames, t \in 1..MaxClock : ProcWrite(r, name, t)
    \/ \E r \in Reqs, rc \in {0, 1} : ProcExit(r, rc)
    \/ \E r \in Reqs, scans \in BOOLEAN : RenderReturn(r, scans)
    \/ \E r \in Reqs : RenderTimeout(r)
    \/ \E r \in Reqs, rep \in QuizReplies : QuizReturn(r, rep)
    \/ \E r \in Reqs, v \in VideoIds : GetQuizStart(r, v)
    \/ \E r \in Reqs, rep \in QuizReplies : GetQuizReturn(r, rep)

Spec == Init /\ [][Next]_vars

\* Every route: the threaded server, and the requests it answers in one step.
NextRoutes ==
    \/ Next
    \/ \E p \in Prompts, u \in UserIds : GenerateRejected(p, u)
    \/ \E v \in VideoIds : GetQuizHit(v)
    \/ \E v \in VideoIds : GetQuizNotFound(v)
    \/ \E q \in QuizIds, a \in AnswerMaps : SubmitQuiz(q, a)
    \/ \E u \in UserIds \cup {"user123"} : GetUserVideos(u)
    \/ \E q \in Queries : SearchVideos(q)
    \/ \E v \in VideoIds : GetVideoDetails(v)
    \/ \E v \in VideoIds, rep \in SummaryReplies : GetVideoSummary(v, rep)
    \/ Send

SpecRoutes == Init /\ [][NextRoutes]_vars

(* ------------------ the derived fields, over many prompts ------------- *)

Pieces ==
    { <<"e", "x", "p", "l", "a", "i", "n">>, <<"h", "o", "w">>, <<"B", "l", "a", "c", "k">>,
      <<"f", "o", "r", "m">>, <<"a">>, <<"T", "E", "N", "S", "I", "O", "N", "S">>,
      <<"e", "l", "e", "c", "t", "r", "o", "m", "a", "g", "n", "e", "t", "i", "s", "m">>,
      <<" ">>, <<"\t">> }

TextPrompts == {Flatten(ps) : ps \in UNION {[1..n -> Pieces] : n \in 1..MaxPieces}}

InitText ==
    /\ videos = SeedVideos
    /\ quizzes = <<>>
    /\ dir = {}
    /\ now = 1
    /\ proc = [r \in Reqs |-> NoProc]
    /\ req = [r \in Reqs |-> IdleReq]
    /\ nextReq = 1
    /\ reply = NoReply
    /\ derive \in {[NoDerive EXCEPT !.prompt = p] : p \in TextPrompts}

DeriveTitle ==
    /\ ~derive.has_title
    /\ derive' = [derive EXCEPT !.has_title = TRUE, !.title = Title(derive.prompt)]
    /\ UNCHANGED serverVars

DeriveTags ==
    /\ ~derive.has_tags
    /\ derive' = [derive EXCEPT !.has_tags = TRUE, !.tags = TopicTags(derive.prompt)]
    /\ UNCHANGED serverVars

NextText == DeriveTitle \/ DeriveTags

SpecText == InitText /\ [][NextText]_vars

(* ------------------------------ properties ---------------------------- *)

IsGenerate(r) == req[r].kind = "generate"

\* The record generate_video appended for request r.
VideoOf(r) == FindVideo(videos, req[r].video_id)

FailedStages ==
    {"model_error", "no_code", "tool_missing", "render_failed", "timeout", "scan_error",
     "no_artifact"}

Range(f) == {f[x] : x \in DOMAIN f}

\* C1: generate_video, given a prompt and an owner id, always answers 200 with
\* the video record and a quiz, whatever the stages did: the record's
\* video_file_url is the fallback sentinel when a stage failed (the model
\* call raised, no code block, no manim, non-zero exit, timeout, no artifact)
\* and the renderer's path otherwise; and a request in flight is never stuck.
C1_GenerateAlwaysReturns ==
    \A r \in Reqs : IsGenerate(r) =>
        /\ req[r].pc \in {"synth", "render", "quiz", "done"}
        /\ req[r].pc = "render" => proc[r].state \in {"running", "exited"}
        /\ req[r].pc = "quiz" =>
              /\ HasVideo(videos, req[r].video_id)
              /\ req[r].stage \in FailedStages \cup {"rendered"}
              /\ req[r].stage \in FailedStages => VideoOf(r).video_file_url = Fallback
              /\ req[r].stage = "rendered" =>
                    /\ req[r].video_file_path # None
                    /\ VideoOf(r).video_file_url = req[r].video_file_path
        /\ req[r].pc = "done" =>
              /\ req[r].resp.status = 200
              /\ req[r].resp.video = VideoOf(r)
              /\ req[r].resp.video.video_file_url # None
              /\ req[r].resp.quiz.video_id = req[r].video_id
              /\ {"quiz_id", "video_id"} \subseteq req[r].resp.quiz.keys

\* Two answered generate requests, one with the sentinel and one with a
\* rendered file.
C1_Witness ==
    \E r1 \in Reqs, r2 \in Reqs :
        /\ IsGenerate(r1) /\ req[r1].pc = "done"
        /\ IsGenerate(r2) /\ req[r2].pc = "done"
        /\ req[r1].resp.video.video_file_url = Fallback
        /\ req[r2].resp.video.video_file_url # Fallback

\* C2: every quiz in the quiz map has a questions sequence that is empty or
\* has exactly 4 questions.
C2_QuizEmptyOrFour ==
    \A v \in DOMAIN quizzes :
        /\ "questions" \in quizzes[v].keys
        /\ Len(quizzes[v].questions) \in {0, 4}

\* C3: every question of every stored quiz of 4 questions has exactly 4
\* options, pairwise distinct, and an answer that is one of them.
C3_QuestionsWellFormed ==
    \A v \in DOMAIN quizzes :
        Len(quizzes[v].questions) = 4 =>
            \A i \in 1..4 :
                LET q == quizzes[v].questions[i]
                IN  /\ Len(q.options) = 4
                    /\ \A a, b \in 1..Len(q.options) : a # b => q.options[a] # q.options[b]
                    /\ q.answer \in Range(q.options)

\* The stored quiz a submission names.
QuizById(quiz_id) == quizzes[CHOOSE v \in DOMAIN quizzes : quizzes[v].quiz_id = quiz_id]

\* The figures the scorer has to return for a quiz and an answers map.
ScoreIsRight(quiz, answers, body) ==
    LET right == {i \in 1..Len(quiz.questions) :
                     /\ Str(quiz.questions[i].id) \in DOMAIN answers
                     /\ answers[Str(quiz.questions[i].id)] = quiz.questions[i].answer}
        total == Len(quiz.questions)
    IN  /\ body.correct = Cardinality(right)
        /\ body.total = total
        /\ IF total = 0 THEN body.percentage.num = 0
           ELSE body.percentage.num * total = 100 * body.correct * body.percentage.den
        /\ body.passed <=> (body.percentage.num >= 70 * body.percentage.den)

\* C4: for every stored quiz and every answers map, submit_quiz answers 200
\* with correct, total, percentage (0 when there is no question) and passed
\* (percentage >= 70) as the claim computes them.
C4_ScoreNeverFails ==
    (reply.op = "submit_quiz" /\ reply.status # 404) =>
        /\ reply.status = 200
        /\ ScoreIsRight(QuizById(reply.quiz_id), reply.answers, reply.body)

\* The part of C4 the code does meet: whenever the stored quiz has a questions
\* sequence, the figures are right.
C4_ScoreOfListedQuestions ==
    (reply.op = "submit_quiz" /\ reply.status = 200) =>
        ScoreIsRight(QuizById(reply.quiz_id), reply.answers, reply.body)

\* C5: a path other than the sentinel that the renderer hands to a request is
\* a file that request's own render subprocess wrote.
C5_OwnArtifact ==
    \A r \in Reqs :
        (IsGenerate(r) /\ req[r].pc = "quiz" /\ req[r].video_file_path # None) =>
            \E f \in req[r].listing :
                JoinPath(f.name) = req[r].video_file_path /\ f.by = r

\* C6: when the render subprocess has not exited by the timeout, the renderer
\* returns no path (the record gets the sentinel) and the subprocess is
\* gone: a render subprocess runs only while the renderer call that started
\* it has not returned.
C6_TimeoutKillsRender ==
    \A r \in Reqs :
        /\ proc[r].state = "running" => req[r].pc = "render"
        /\ req[r].stage = "timeout" =>
              /\ req[r].video_file_path = None
              /\ proc[r].state = "reaped"
              /\ VideoOf(r).video_file_url = Fallback

\* A request whose render timed out after the subprocess had written a file.
C6_Witness ==
    \E r \in Reqs :
        /\ req[r].stage = "timeout"
        /\ req[r].pc = "quiz"
        /\ \E f \in dir : f.by = r

\* C7: a quiz stored under a video id is never replaced by another quiz.
C7_QuizNeverReplaced ==
    [][\A v \in DOMAIN quizzes : v \in DOMAIN quizzes' /\ quizzes'[v] = quizzes[v]]_vars

\* C8: the video list is append-only and its records never change: a step
\* keeps every record at its place, adds at most one record, at the end, and
\* only as the step of a generate request; a generate request that has
\* passed that step has exactly one record in the list.
C8_AppendOnly ==
    [][/\ Len(videos') >= Len(videos)
       /\ SubSeq(videos', 1, Len(videos)) = videos
       /\ Len(videos') <= Len(videos) + 1
       /\ videos' # videos =>
             \E r \in Reqs :
                 /\ IsGenerate(r)
                 /\ req[r].pc \in {"synth", "render"}
                 /\ req'[r].pc = "quiz"
                 /\ videos'[Len(videos')].video_id = req[r].video_id
       /\ \A r \in Reqs :
             (req'[r].kind = "generate" /\ req'[r].pc \in {"quiz", "done"}) =>
                 Cardinality({i \in 1..Len(videos') : videos'[i].video_id = req'[r].video_id}) = 1
      ]_vars

\* Two generated records behind the two seeded ones, and a read route
\* answering.
C8_Witness ==
    /\ Len(videos) = Len(SeedVideos) + 2
    /\ SubSeq(videos, 1, Len(SeedVideos)) = SeedVideos
    /\ reply.op = "get_video_summary"
    /\ reply.status = 200

\* The maximal runs of non-whitespace characters of s, as <<first, last>>.
Runs(s) ==
    {<<i, j>> \in (1..Len(s)) \X (1..Len(s)) :
        /\ i <= j
        /\ \A k \in i..j : s[k] \notin Whitespace
        /\ i = 1 \/ s[i - 1] \in Whitespace
        /\ j = Len(s) \/ s[j + 1] \in Whitespace}

\* tags is the runs of s longer than 3 characters, in the order they begin.
IsLongTokensOf(tags, s) ==
    LET long == {run \in Runs(s) : run[2] - run[1] + 1 > 3}
    IN  /\ Len(tags) = Cardinality(long)
        /\ \A run \in long :
              tags[1 + Cardinality({other \in long : other[1] < run[1]})]
                  = SubSeq(s, run[1], run[2])

\* C9: the title is the prompt when it has at most 30 characters and else
\* its first 30 characters followed by "...", so never longer than 33; the
\* tags are the whitespace-separated tokens of the lower-cased prompt that
\* are longer than 3 characters, in prompt order.
C9_TitleAndTags ==
    /\ derive.has_title =>
          /\ Len(derive.title) <= 33
          /\ Len(derive.prompt) <= 30 => derive.title = derive.prompt
          /\ Len(derive.prompt) > 30 =>
                /\ Len(derive.title) = 33
                /\ SubSeq(derive.title, 1, 30) = SubSeq(derive.prompt, 1, 30)
                /\ SubSeq(derive.title, 31, 33) = <<".", ".", ".">>
    /\ derive.has_tags => IsLongTokensOf(derive.tags, Lower(derive.prompt))

\* A prompt longer than 30 characters with a token that is a tag and a token
\* too short to be one.
C9_Witness ==
    /\ derive.has_title
    /\ derive.has_tags
    /\ Len(derive.prompt) > 30
    /\ Len(derive.tags) >= 1
    /\ \E run \in Runs(derive.prompt) : run[2] - run[1] + 1 <= 3

IsArtifactName(name) == StartsWith(name, EntryPoint) /\ EndsWith(name, VideoExt)

\* C10: the renderer returns a path only when the subprocess exited with
\* code zero and the directory listing holds a file named MainScene...mp4,
\* and the path is that of such a file of the latest modification time; on a
\* non-zero exit, a timeout, a missing tool or no such file it returns none.
C10_NewestMatchingArtifact ==
    \A r \in Reqs : (IsGenerate(r) /\ req[r].pc = "quiz") =>
        /\ req[r].video_file_path # None =>
              /\ req[r].stage = "rendered"
              /\ req[r].returncode = 0
              /\ \E f \in req[r].listing :
                    /\ IsArtifactName(f.name)
                    /\ req[r].video_file_path = JoinPath(f.name)
                    /\ \A g \in req[r].listing : IsArtifactName(g.name) => g.mtime <= f.mtime
        /\ req[r].stage \in {"render_failed", "timeout", "tool_missing", "scan_error",
                            "no_artifact"} =>
              req[r].video_file_path = None
        /\ req[r].stage = "render_failed" => req[r].returncode # 0
        /\ req[r].stage = "no_artifact" =>
              /\ req[r].returncode = 0
              /\ \A g \in req[r].listing : ~IsArtifactName(g.name)

\* The renderer has picked the newer of two artifacts in the listing.
C10_Witness ==
    \E r \in Reqs :
        /\ IsGenerate(r)
        /\ req[r].pc = "quiz"
        /\ req[r].video_file_path # None
        /\ \E f, g \in req[r].listing :
              /\ IsArtifactName(f.name)
              /\ IsArtifactName(g.name)
              /\ g.mtime < f.mtime
              /\ req[r].video_file_path = JoinPath(f.name)

====
